---- MODULE Spec2Model ----
(***************************************************************************)
(* State-machine model of the email-communication service                  *)
(* (email_communication/services.py, models.py, managers.py, views.py)     *)
(* and of the conditional-question validation of the survey module.        *)
(*                                                                         *)
(* Database tables are sequences of rows; a row's primary key is its       *)
(* position.  Every service call or HTTP handler is one atomic action.     *)
(***************************************************************************)
EXTENDS Integers, Sequences, FiniteSets, TLC

VARIABLES
    costCenters,  \* table email_costcenter (+ its email_costcenter_email rows)
    drafts,       \* table email_draft
    logs,         \* table email_log
    views,        \* table email_recipient_view
    mail,         \* messages the mail backend accepted, in order
    questions,    \* table surveys_question
    conditions,   \* table surveys_questioncondition
    req,          \* the last call: operation, caller, arguments
    resp,         \* what the last call returned
    inflight      \* the toggle requests that fetched their row: local copy, position

vars == <<costCenters, drafts, logs, views, mail, questions, conditions, req, resp,
         inflight>>

emailVars == <<costCenters, drafts, logs, views, mail>>
surveyVars == <<questions, conditions>>

---------------------------------------------------------------------------
(* Bounds of the model *)

MaxCC == 2      \* cost centers that can be created
MaxLogs == 1    \* send_email is called while fewer logs than this exist
MaxMail == 1    \* ... and while fewer messages than this were delivered

---------------------------------------------------------------------------
(* Users and addresses *)

UserSeq == <<"alice", "bob">>
Users == {UserSeq[i] : i \in DOMAIN UserSeq}
UserEmail(u) == IF u = "alice" THEN "a@x" ELSE "b@x"
Emails == {"a@x", "b@x", "ext@x"}   \* ext@x is nobody's account

\* The (TO list, CC list) pairs a cost center is given: two TO users;
\* a user in TO and in CC, a user in CC only and an address without an
\* account; no TO address at all
AddressLists ==
    { <<{"a@x", "b@x"}, {}>>,
      <<{"a@x"}, {"a@x", "b@x", "ext@x"}>>,
      <<{}, {"b@x"}>> }

SendTypes == {"ANNOUNCEMENT", "SPECIFIC"}


---------------------------------------------------------------------------
(* Queries *)

\* CostCenterManager.active: the active cost centers
ActiveCostCenters == {c \in DOMAIN costCenters : costCenters[c].is_active}

\* CostCenter.get_recipient_emails / get_cc_emails
get_recipient_emails(c) == costCenters[c].recipient
get_cc_emails(c) == costCenters[c].cc

\* Mutant of TargetCostCenters: SPECIFIC without the is_active filter
TargetCostCenters_AnyRequested(send_type, cost_center_ids) ==
    IF send_type = "ANNOUNCEMENT"
    THEN ActiveCostCenters
    ELSE {c \in DOMAIN costCenters : c \in cost_center_ids}

\* The cost centers a send addresses (services.py 93-104)
TargetCostCenters(send_type, cost_center_ids) ==
    IF send_type = "ANNOUNCEMENT"
    THEN ActiveCostCenters
    ELSE {c \in DOMAIN costCenters :
            c \in cost_center_ids /\ costCenters[c].is_active}

\* A finite set of integers as the ascending sequence a queryset iterates
RECURSIVE Ordered(_)
Ordered(S) ==
    IF S = {} THEN <<>>
    ELSE LET m == CHOOSE x \in S : \A y \in S : x <= y
         IN <<m>> \o Ordered(S \ {m})

---------------------------------------------------------------------------
(* Cost-center management (CostCenterDetailSerializer) *)

CreateCostCenter(active, lists) ==
    /\ Len(costCenters) < MaxCC
    /\ costCenters' = Append(costCenters,
           [is_active |-> active, recipient |-> lists[1], cc |-> lists[2]])
    /\ req' = [op |-> "create_cost_center"]
    /\ resp' = [success |-> TRUE]
    /\ UNCHANGED <<drafts, logs, views, mail, questions, conditions, inflight>>

\* A partial update of is_active (no recipient_emails, no cc_emails in the
\* request: the address rows stay as they are)
UpdateCostCenter(c, active) ==
    /\ c \in DOMAIN costCenters
    /\ costCenters' = [costCenters EXCEPT ![c].is_active = active]
    /\ req' = [op |-> "update_cost_center"]
    /\ resp' = [success |-> TRUE]
    /\ UNCHANGED <<drafts, logs, views, mail, questions, conditions, inflight>>

---------------------------------------------------------------------------
(* EmailService: the fan-out of one send *)

\* (a lookup by id alone, used to show what the statement about draft
\* ownership rests on)
LookupDraft_AnyOwner(user, draft_id) ==
    IF /\ draft_id \in DOMAIN drafts
       /\ ~drafts[draft_id].is_deleted
    THEN draft_id ELSE 0

\* EmailDraft.objects.get(id=draft_id, user=user) through the default
\* manager, which hides soft-deleted rows; 0 stands for None
LookupDraft(user, draft_id) ==
    IF /\ draft_id \in DOMAIN drafts
       /\ drafts[draft_id].user = user
       /\ ~drafts[draft_id].is_deleted
    THEN draft_id ELSE 0

\* User.objects.filter(email__in=emails), in primary-key order
UsersWithEmail(emails) ==
    SelectSeq(UserSeq, LAMBDA u : UserEmail(u) \in emails)

\* EmailRecipientView.objects.create under unique_together
\* (email_log, recipient_user): a second row for the pair raises
\* IntegrityError, which marks the transaction for rollback
InsertView(t, log_id, user, is_to) ==
    IF t.raised THEN t
    ELSE IF \E i \in DOMAIN t.views :
               /\ t.views[i].email_log = log_id
               /\ t.views[i].recipient_user = user
    THEN [t EXCEPT !.raised = TRUE]
    ELSE [t EXCEPT !.views = Append(@,
             [email_log |-> log_id, recipient_user |-> user, is_to |-> is_to,
              is_read |-> FALSE, read_at |-> "null",
              is_starred |-> FALSE, is_archived |-> FALSE])]

RECURSIVE TrackTo(_, _, _)
TrackTo(t, log_id, us) ==
    IF us = <<>> THEN t
    ELSE TrackTo(InsertView(t, log_id, Head(us), TRUE), log_id, Tail(us))

\* Mutant of TrackCcOne: the CC row is flagged as a TO row
TrackCcOne_FlaggedTo(t, log_id, user) ==
    IF t.raised THEN t
    ELSE IF \E i \in DOMAIN t.views :
               /\ t.views[i].email_log = log_id
               /\ t.views[i].recipient_user = user
    THEN t
    ELSE InsertView(t, log_id, user, TRUE)

\* the CC loop: a user who already has a row for the log is skipped
TrackCcOne(t, log_id, user) ==
    IF t.raised THEN t
    ELSE IF \E i \in DOMAIN t.views :
          /\ t.views[i].email_log = log_id
          /\ t.views[i].recipient_user = user
    THEN t
    ELSE InsertView(t, log_id, user, FALSE)

RECURSIVE TrackCc(_, _, _)
TrackCc(t, log_id, us) ==
    IF us = <<>> THEN t
    ELSE TrackCc(TrackCcOne(t, log_id, Head(us)), log_id, Tail(us))

\* EmailService._create_recipient_tracking
\* result: [views, raised]
create_recipient_tracking(vs, log_id, to_emails, cc_emails) ==
    LET to_users == UsersWithEmail(to_emails)
        cc_users == IF cc_emails # {} THEN UsersWithEmail(cc_emails) ELSE <<>>
        t0 == [views |-> vs, raised |-> FALSE]
    IN TrackCc(TrackTo(t0, log_id, to_users), log_id, cc_users)

\* A transaction in flight:
\*   logs, views  the tables as the transaction sees them
\*   mail         the mail backend's messages (not transactional)
\*   broken       a database error marked the transaction for rollback;
\*                every later query raises TransactionManagementError
\*   raised       an exception left the for loop of send_email
\*   results      the per-cost-center result dicts
\*   sent_log     the id of the SENT log, 0 for None
NoLog == 0
NoDbFail == 0       \* no database error during the call
FailSentLog == -1   \* the INSERT of the SENT log fails
                    \* c > 0: the INSERT of cost center c's RECEIVED log fails

Failure(c, error) ==
    [success |-> FALSE, cost_center |-> c, log_id |-> NoLog, error |-> error]

\* EmailService._send_to_cost_center (the except of 245-254 included);
\* mailOk is the set of cost centers whose msg.send() succeeds
\* result: the transaction, one more entry in results
send_to_cost_center(st, user, c, send_type, draft, mailOk, dbFail) ==
    IF st.broken
    THEN [st EXCEPT !.results = Append(@, Failure(c, "exception"))]
    ELSE
    LET to_emails == get_recipient_emails(c)
        cc_emails == get_cc_emails(c)
    IN
    IF to_emails = {}
    THEN [st EXCEPT !.results = Append(@, Failure(c, "No users in cost center"))]
    ELSE
    LET email_sent == c \in mailOk
        mail1 == IF email_sent
                 THEN Append(st.mail, [cost_center |-> c, to |-> to_emails,
                                       cc |-> cc_emails])
                 ELSE st.mail
    IN
    IF dbFail = c
    THEN [st EXCEPT !.mail = mail1, !.broken = TRUE,
                    !.results = Append(@, Failure(c, "exception"))]
    ELSE
    LET log_id == Len(st.logs) + 1
        received_log ==
            [user |-> user, cost_center |-> c, draft |-> draft,
             send_type |-> send_type, email_type |-> "RECEIVED",
             recipient_emails |-> to_emails, cc_emails |-> cc_emails,
             email_status |-> IF email_sent THEN "SUCCESS" ELSE "FAILED"]
        logs1 == Append(st.logs, received_log)
        t == IF email_sent
             THEN create_recipient_tracking(st.views, log_id, to_emails, cc_emails)
             ELSE [views |-> st.views, raised |-> FALSE]
    IN
    IF t.raised
    THEN [st EXCEPT !.mail = mail1, !.logs = logs1, !.views = t.views,
                    !.broken = TRUE,
                    !.results = Append(@, Failure(c, "exception"))]
    ELSE [st EXCEPT !.mail = mail1, !.logs = logs1, !.views = t.views,
                    !.results = Append(@,
                        [success |-> email_sent, cost_center |-> c,
                         log_id |-> log_id, error |-> ""])]

\* The union of the address lists of the addressed cost centers
RECURSIVE AllEmails(_, _)
AllEmails(cs, kind) ==
    IF cs = {} THEN {}
    ELSE LET c == CHOOSE x \in cs : TRUE
         IN (IF kind = "recipient" THEN get_recipient_emails(c)
             ELSE get_cc_emails(c)) \cup AllEmails(cs \ {c}, kind)

\* Mutant of create_sent_log: the SENT log is written but not remembered,
\* so the loop writes it again for the next cost center
create_sent_log_Forgotten(st, user, send_type, cost_centers, draft, result, dbFail) ==
    IF st.broken \/ dbFail = FailSentLog
    THEN [st EXCEPT !.broken = TRUE, !.raised = TRUE]
    ELSE [st EXCEPT
            !.logs = Append(@,
                [user |-> user, cost_center |-> 0, draft |-> draft,
                 send_type |-> send_type, email_type |-> "SENT",
                 recipient_emails |-> AllEmails(cost_centers, "recipient"),
                 cc_emails |-> AllEmails(cost_centers, "cc"),
                 email_status |-> IF result.success THEN "SUCCESS" ELSE "FAILED"])]

\* EmailService._create_sent_log, called with the first result
create_sent_log(st, user, send_type, cost_centers, draft, result, dbFail) ==
    IF st.broken \/ dbFail = FailSentLog
    THEN [st EXCEPT !.broken = TRUE, !.raised = TRUE]
    ELSE [st EXCEPT
            !.logs = Append(@,
                [user |-> user, cost_center |-> 0, draft |-> draft,
                 send_type |-> send_type, email_type |-> "SENT",
                 recipient_emails |-> AllEmails(cost_centers, "recipient"),
                 cc_emails |-> AllEmails(cost_centers, "cc"),
                 email_status |-> IF result.success THEN "SUCCESS" ELSE "FAILED"]),
            !.sent_log = Len(st.logs) + 1]

\* The for loop of send_email (services.py 136-160)
RECURSIVE SendLoop(_, _, _, _, _, _, _, _)
SendLoop(st, todo, user, send_type, cost_centers, draft, mailOk, dbFail) ==
    IF todo = <<>> \/ st.raised THEN st
    ELSE
    LET st1 == send_to_cost_center(st, user, Head(todo), send_type, draft,
                                   mailOk, dbFail)
        st2 == IF st1.sent_log = NoLog
               THEN create_sent_log(st1, user, send_type, cost_centers, draft,
                                    st1.results[Len(st1.results)], dbFail)
               ELSE st1
    IN SendLoop(st2, Tail(todo), user, send_type, cost_centers, draft,
                mailOk, dbFail)

ErrorResp(error) == [success |-> FALSE, error |-> error]

\* Mutant of RequestError: SPECIFIC without ids is not refused up front
RequestError_NoIdsCheck(send_type, cost_center_ids) ==
    IF send_type \notin SendTypes
    THEN "Invalid send type"
    ELSE IF TargetCostCenters(send_type, cost_center_ids) = {}
    THEN "No active cost centers found"
    ELSE ""

\* The early returns of send_email (services.py 93-115): the error message,
\* "" when the call goes on
RequestError(send_type, cost_center_ids) ==
    IF send_type = "SPECIFIC" /\ cost_center_ids = {}
    THEN "Cost center IDs required for SPECIFIC send type"
    ELSE IF send_type \notin SendTypes
    THEN "Invalid send type"
    ELSE IF TargetCostCenters(send_type, cost_center_ids) = {}
    THEN "No active cost centers found"
    ELSE ""

\* The end of send_email (services.py 162-180) and of its atomic block
Finish(st) ==
    LET successful == Cardinality({i \in DOMAIN st.results : st.results[i].success})
        commit == ~st.raised /\ ~st.broken
    IN
    [logs |-> IF commit THEN st.logs ELSE logs,
     views |-> IF commit THEN st.views ELSE views,
     mail |-> st.mail,
     resp |-> IF st.raised
              THEN ErrorResp("exception")
              ELSE [success |-> successful > 0,
                    sent_count |-> successful,
                    failed_count |-> Len(st.results) - successful,
                    total_cost_centers |-> Len(st.results),
                    details |-> st.results,
                    sent_log_id |-> st.sent_log]]

\* EmailService.send_email: the tables, the mail and the returned dict
\* after the call.  transaction.atomic() commits when the block is left
\* without an exception and the transaction is not marked for rollback,
\* and rolls back otherwise.
send_email(user, send_type, cost_center_ids, draft_id, mailOk, dbFail) ==
    LET error == RequestError(send_type, cost_center_ids)
        cost_centers == TargetCostCenters(send_type, cost_center_ids)
    IN
    IF error # ""
    THEN [logs |-> logs, views |-> views, mail |-> mail, resp |-> ErrorResp(error)]
    ELSE
    Finish(SendLoop([logs |-> logs, views |-> views, mail |-> mail,
                     broken |-> FALSE, raised |-> FALSE,
                     results |-> <<>>, sent_log |-> NoLog],
                    Ordered(cost_centers), user, send_type, cost_centers,
                    LookupDraft(user, draft_id), mailOk, dbFail))

\* A call of EmailService.send_email (SendEmailView.post passes no draft)
SendEmail(user, send_type, cost_center_ids, mailOk, dbFail) ==
    /\ Len(logs) < MaxLogs
    /\ Len(mail) < MaxMail
    /\ \E r \in {send_email(user, send_type, cost_center_ids, 0, mailOk, dbFail)} :
          /\ logs' = r.logs
          /\ views' = r.views
          /\ mail' = r.mail
          /\ resp' = r.resp
    /\ req' = [op |-> "send_email", user |-> user, send_type |-> send_type,
               cost_center_ids |-> cost_center_ids]
    /\ UNCHANGED <<costCenters, drafts, questions, conditions, inflight>>

---------------------------------------------------------------------------
(* The fan-out specification: cost-center management and sends *)

CostCenterIds == 1..(MaxCC + 1)   \* ids a request can name; one never exists

\* Who sends in this specification (the sender only labels the logs)
Senders == {"alice"}

\* The (send_type, cost_center_ids) a caller passes; ANNOUNCEMENT and an
\* unknown send type come without ids
Requests ==
    {<<"ANNOUNCEMENT", {}>>, <<"OTHER", {}>>}
        \cup {<<"SPECIFIC", ids>> : ids \in SUBSET CostCenterIds}

\* The addressed cost centers for which the call reaches msg.send(): only
\* for these can the mail backend or the INSERT of the RECEIVED log fail
Reached(send_type, cost_center_ids) ==
    {c \in TargetCostCenters(send_type, cost_center_ids) :
        get_recipient_emails(c) # {}}

Init ==
    /\ costCenters = <<>>
    /\ drafts = <<>>
    /\ logs = <<>>
    /\ views = <<>>
    /\ mail = <<>>
    /\ questions = <<>>
    /\ conditions = {}
    /\ req = [op |-> "none"]
    /\ resp = [success |-> TRUE]
    /\ inflight = <<>>

Next ==
    \/ \E a \in BOOLEAN, l \in AddressLists : CreateCostCenter(a, l)
    \/ \E c \in 1..MaxCC, a \in BOOLEAN : UpdateCostCenter(c, a)
    \/ \E u \in Senders, rq \in Requests :
          \E ok \in SUBSET Reached(rq[1], rq[2]),
             f \in {NoDbFail, FailSentLog} \cup Reached(rq[1], rq[2]) :
             SendEmail(u, rq[1], rq[2], ok, f)

Spec == Init /\ [][Next]_vars

---------------------------------------------------------------------------
(* Drafts: EmailDraft, EmailDraftViewSet, save_draft, send_from_draft *)

MaxDrafts == 1   \* drafts that can be created

\* EmailDraft.cost_center_ids is text: the ids joined with commas.  Text is
\* a sequence of characters.
DigitChars == <<"0", "1", "2", "3", "4", "5", "6", "7", "8", "9">>
NullText == <<"NULL">>   \* the column's NULL

\* str(id) of a natural number
RECURSIVE Str(_)
Str(n) ==
    IF n < 10 THEN <<DigitChars[n + 1]>>
    ELSE Str(n \div 10) \o <<DigitChars[(n % 10) + 1]>>

\* EmailDraft.set_cost_center_list: ','.join(str(id) for id in ids)
RECURSIVE set_cost_center_list(_)
set_cost_center_list(ids) ==
    IF ids = <<>> THEN <<>>
    ELSE IF Len(ids) = 1 THEN Str(ids[1])
    ELSE Str(ids[1]) \o <<",">> \o set_cost_center_list(Tail(ids))

\* text.split(','): the pieces between the commas
RECURSIVE SplitCommas(_, _)
SplitCommas(text, piece) ==
    IF text = <<>> THEN <<piece>>
    ELSE IF Head(text) = ","
    THEN <<piece>> \o SplitCommas(Tail(text), <<>>)
    ELSE SplitCommas(Tail(text), Append(piece, Head(text)))

\* int(piece) of a piece of digits
RECURSIVE Int10(_, _)
Int10(piece, acc) ==
    IF piece = <<>> THEN acc
    ELSE Int10(Tail(piece),
               10 * acc + (CHOOSE d \in 0..9 : DigitChars[d + 1] = Head(piece)))

\* EmailDraft.get_cost_center_list: [] for NULL or '', else the pieces of
\* the text that are not blank, as integers
get_cost_center_list(text) ==
    IF text = NullText \/ text = <<>> THEN <<>>
    ELSE LET pieces == SelectSeq(SplitCommas(text, <<>>), LAMBDA x : x # <<>>)
         IN [i \in DOMAIN pieces |-> Int10(pieces[i], 0)]

SeqToSet(q) == {q[i] : i \in DOMAIN q}

\* (a manager that does not leave the soft-deleted rows out)
for_user_WithDeleted(user) ==
    {d \in DOMAIN drafts : drafts[d].user = user}

\* EmailDraftManager.for_user on the default queryset: the caller's drafts
\* that are not soft-deleted
for_user(user) ==
    {d \in DOMAIN drafts : drafts[d].user = user /\ ~drafts[d].is_deleted}

\* IsDraftOwner.has_object_permission
IsDraftOwner(user, d) == drafts[d].user = user

\* The arguments of a draft request: send type, subject and the list of
\* cost center ids; NoIds stands for a request without cost_center_ids
NoIds == <<0>>
DraftContents ==
    { [send_type |-> "ANNOUNCEMENT", subject |-> "s1", ids |-> NoIds],
      [send_type |-> "SPECIFIC", subject |-> "s2", ids |-> <<2, 1>>],
      [send_type |-> "SPECIFIC", subject |-> "s2", ids |-> <<>>] }

NotFound == [status |-> 404]

\* POST /drafts/ : EmailDraftDetailSerializer.create
DraftCreate(user, c) ==
    /\ Len(drafts) < MaxDrafts
    /\ drafts' = Append(drafts,
           [user |-> user, send_type |-> c.send_type, subject |-> c.subject,
            cost_center_ids |->
                IF c.ids # NoIds /\ c.ids # <<>>
                THEN set_cost_center_list(c.ids) ELSE NullText,
            is_deleted |-> FALSE])
    /\ req' = [op |-> "draft_create", user |-> user]
    /\ resp' = [status |-> 201, id |-> Len(drafts) + 1]
    /\ UNCHANGED <<costCenters, logs, views, mail, questions, conditions, inflight>>

\* GET /drafts/ : the queryset of EmailDraftViewSet
DraftList(user) ==
    /\ req' = [op |-> "draft_list", user |-> user]
    /\ resp' = [status |-> 200, results |-> for_user(user)]
    /\ UNCHANGED <<costCenters, drafts, logs, views, mail, questions, conditions, inflight>>

\* GET /drafts/{id}/ : get_object on the queryset, then IsDraftOwner
DraftRetrieve(user, d) ==
    /\ req' = [op |-> "draft_retrieve", user |-> user, draft_id |-> d]
    /\ resp' = IF d \notin for_user(user) THEN NotFound
               ELSE IF ~IsDraftOwner(user, d) THEN [status |-> 403]
               ELSE [status |-> 200, draft |-> drafts[d],
                     cost_center_ids |->
                         get_cost_center_list(drafts[d].cost_center_ids)]
    /\ UNCHANGED <<costCenters, drafts, logs, views, mail, questions, conditions, inflight>>

\* PUT /drafts/{id}/ : EmailDraftDetailSerializer.update
DraftUpdate(user, d, c) ==
    /\ req' = [op |-> "draft_update", user |-> user, draft_id |-> d]
    /\ IF d \notin for_user(user)
       THEN resp' = NotFound /\ UNCHANGED drafts
       ELSE IF ~IsDraftOwner(user, d)
       THEN resp' = [status |-> 403] /\ UNCHANGED drafts
       ELSE /\ drafts' = [drafts EXCEPT
                  ![d].send_type = c.send_type,
                  ![d].subject = c.subject,
                  ![d].cost_center_ids =
                      IF c.ids # NoIds THEN set_cost_center_list(c.ids) ELSE @]
            /\ resp' = [status |-> 200]
    /\ UNCHANGED <<costCenters, logs, views, mail, questions, conditions, inflight>>

\* DELETE /drafts/{id}/ : perform_destroy, a soft delete
DraftDestroy(user, d) ==
    /\ req' = [op |-> "draft_destroy", user |-> user, draft_id |-> d]
    /\ IF d \notin for_user(user)
       THEN resp' = NotFound /\ UNCHANGED drafts
       ELSE IF ~IsDraftOwner(user, d)
       THEN resp' = [status |-> 403] /\ UNCHANGED drafts
       ELSE /\ drafts' = [drafts EXCEPT ![d].is_deleted = TRUE]
            /\ resp' = [status |-> 204]
    /\ UNCHANGED <<costCenters, logs, views, mail, questions, conditions, inflight>>

\* EmailService.save_draft; draft_id 0 stands for None
SaveDraft(user, c, draft_id) ==
    /\ req' = [op |-> "save_draft", user |-> user, draft_id |-> draft_id]
    /\ IF draft_id # 0
       THEN IF LookupDraft(user, draft_id) = 0
            THEN /\ resp' = ErrorResp("Draft not found")
                 /\ UNCHANGED drafts
            ELSE /\ drafts' = [drafts EXCEPT
                       ![draft_id].send_type = c.send_type,
                       ![draft_id].subject = c.subject,
                       ![draft_id].cost_center_ids =
                           IF c.ids # NoIds /\ c.ids # <<>>
                           THEN set_cost_center_list(c.ids) ELSE @]
                 /\ resp' = [success |-> TRUE, draft |-> draft_id]
       ELSE /\ Len(drafts) < MaxDrafts
            /\ drafts' = Append(drafts,
                   [user |-> user, send_type |-> c.send_type,
                    subject |-> c.subject,
                    cost_center_ids |->
                        IF c.ids # NoIds /\ c.ids # <<>>
                        THEN set_cost_center_list(c.ids) ELSE NullText,
                    is_deleted |-> FALSE])
            /\ resp' = [success |-> TRUE, draft |-> Len(drafts) + 1]
    /\ UNCHANGED <<costCenters, logs, views, mail, questions, conditions, inflight>>

\* EmailService.send_from_draft (the subject and body overrides do not
\* reach any modelled field)
SendFromDraft(user, draft_id, mailOk, dbFail) ==
    /\ Len(logs) < MaxLogs
    /\ Len(mail) < MaxMail
    /\ req' = [op |-> "send_from_draft", user |-> user, draft_id |-> draft_id]
    /\ IF LookupDraft(user, draft_id) = 0
       THEN /\ resp' = ErrorResp("Draft not found")
            /\ UNCHANGED <<logs, views, mail>>
       ELSE \E r \in {send_email(user, drafts[draft_id].send_type,
                          IF drafts[draft_id].send_type = "SPECIFIC"
                          THEN SeqToSet(get_cost_center_list(
                                   drafts[draft_id].cost_center_ids))
                          ELSE {},
                          draft_id, mailOk, dbFail)} :
              /\ logs' = r.logs
              /\ views' = r.views
              /\ mail' = r.mail
              /\ resp' = r.resp
    /\ UNCHANGED <<costCenters, drafts, questions, conditions, inflight>>

\* The draft specification: two cost centers exist, users work on drafts
DraftInit ==
    /\ costCenters =
          << [is_active |-> TRUE, recipient |-> {"a@x", "b@x"}, cc |-> {}],
             [is_active |-> FALSE, recipient |-> {"a@x"},
              cc |-> {"a@x", "b@x", "ext@x"}] >>
    /\ drafts = <<>>
    /\ logs = <<>>
    /\ views = <<>>
    /\ mail = <<>>
    /\ questions = <<>>
    /\ conditions = {}
    /\ req = [op |-> "none"]
    /\ resp = [success |-> TRUE]
    /\ inflight = <<>>

DraftIds == 1..(MaxDrafts + 1)   \* ids a request can name; one never exists

DraftNext ==
    \/ \E u \in Users, c \in DraftContents : DraftCreate(u, c)
    \/ \E u \in Users : DraftList(u)
    \/ \E u \in Users, d \in DraftIds : DraftRetrieve(u, d)
    \/ \E u \in Users, d \in DraftIds, c \in DraftContents : DraftUpdate(u, d, c)
    \/ \E u \in Users, d \in DraftIds : DraftDestroy(u, d)
    \/ \E u \in Users, d \in DraftIds \cup {0}, c \in DraftContents :
          SaveDraft(u, c, d)
    \/ \E u \in Users, d \in DraftIds,
          ok \in SUBSET ActiveCostCenters, f \in {NoDbFail, FailSentLog} :
          SendFromDraft(u, d, ok, f)

DraftSpec == DraftInit /\ [][DraftNext]_vars

---------------------------------------------------------------------------
(* Survey builder: Question and QuestionCondition.  The validation of a  *)
(* condition and the update of a question follow the specification and   *)
(* the calls made in surveys/tests_conditional.py.                       *)

MaxQuestions == 2   \* questions that can be created

Surveys == {1, 2}
Orders == {1, 2}
QuestionTypes == {"yes_no", "single_choice", "text"}
TriggerTypes == {"yes_no", "single_choice"}
AnswerValues == {"Yes"}

OrderMessage == "Trigger question must appear before the dependent question"
TypeMessage == "Only yes/no and single choice questions can be triggers"
SurveyMessage == "must be in the same survey"

\* Question.objects.create(survey=..., question_type=..., order=...)
CreateQuestion(survey, type, order) ==
    /\ Len(questions) < MaxQuestions
    /\ questions' = Append(questions,
           [survey |-> survey, question_type |-> type, order |-> order])
    /\ req' = [op |-> "create_question"]
    /\ resp' = [ok |-> TRUE, errors |-> {}]
    /\ UNCHANGED <<conditions, emailVars, inflight>>

\* question.question_type = ...; question.order = ...; question.save():
\* the fields are assigned and stored, the stored conditions are not
\* looked at
UpdateQuestion(q, type, order) ==
    /\ q \in DOMAIN questions
    /\ questions' = [questions EXCEPT ![q].question_type = type,
                                      ![q].order = order]
    /\ req' = [op |-> "update_question", question |-> q]
    /\ resp' = [ok |-> TRUE, errors |-> {}]
    /\ UNCHANGED <<conditions, emailVars, inflight>>

\* (the survey and the type constraint as a slip would write them)
SurveyViolated_SameSide(t, d) == questions[t].survey # questions[t].survey
TypeViolated_YesNoOrText(t) ==
    questions[t].question_type \notin {"yes_no", "text"}

\* The three constraints on a condition of trigger t and dependent d
SurveyViolated(t, d) == questions[t].survey # questions[d].survey
TypeViolated(t) == questions[t].question_type \notin TriggerTypes
OrderViolated(t, d) == questions[t].order >= questions[d].order

\* The messages of the ValidationError QuestionCondition.save raises
ConditionErrors(t, d) ==
    (IF SurveyViolated(t, d) THEN {SurveyMessage} ELSE {}) \cup
    (IF TypeViolated(t) THEN {TypeMessage} ELSE {}) \cup
    (IF OrderViolated(t, d) THEN {OrderMessage} ELSE {})

\* QuestionCondition.save on the conditions cs: validation, then the
\* insert under the unique constraint on (trigger, value, dependent)
save_condition(cs, t, v, d) ==
    LET c == [trigger |-> t, value |-> v, dependent |-> d]
    IN IF ConditionErrors(t, d) # {}
       THEN [conditions |-> cs,
             resp |-> [ok |-> FALSE, errors |-> ConditionErrors(t, d)]]
       ELSE IF c \in cs
       THEN [conditions |-> cs,
             resp |-> [ok |-> FALSE, errors |-> {"IntegrityError"}]]
       ELSE [conditions |-> cs \cup {c}, resp |-> [ok |-> TRUE, errors |-> {}]]

\* QuestionCondition(trigger_question=t, trigger_answer_value=v,
\* dependent_question=d).save()
SaveCondition(t, v, d) ==
    /\ t \in DOMAIN questions
    /\ d \in DOMAIN questions
    /\ \E r \in {save_condition(conditions, t, v, d)} :
          /\ conditions' = r.conditions
          /\ resp' = r.resp
    /\ req' = [op |-> "save_condition", trigger |-> t, value |-> v,
               dependent |-> d]
    /\ UNCHANGED <<questions, emailVars, inflight>>

\* (set_conditional_on tested for truth instead of for presence)
ReplacesConditions_IfTruthy(given, entries) == given /\ entries # {}

\* QuestionSerializer.update: set_conditional_on replaces the conditions
\* of the question when the data carries it, also when it is empty
ReplacesConditions(given, entries) == given

ConditionalOn(cs, q) == {c \in cs : c.dependent = q}

\* The conditions of the entries of set_conditional_on, saved one by one
RECURSIVE SaveEntries(_, _, _)
SaveEntries(st, entries, q) ==
    IF entries = {} \/ ~st.resp.ok THEN st
    ELSE LET e == CHOOSE x \in entries : TRUE
         IN SaveEntries(save_condition(st.conditions, e[1], e[2], q),
                        entries \ {e}, q)

\* QuestionSerializer(question, data={'set_conditional_on': entries},
\* partial=True).save().  The conditions in which the question is the
\* dependent one are deleted, then those of the entries are saved; when a
\* save is refused, the deletion stays or is rolled back, as the caller
\* runs outside or inside a transaction
SerializerUpdate(q, given, entries) ==
    /\ q \in DOMAIN questions
    /\ \A e \in entries : e[1] \in DOMAIN questions
    /\ req' = [op |-> "serializer_update", question |-> q, given |-> given,
               entries |-> entries]
    /\ IF ~ReplacesConditions(given, entries)
       THEN /\ resp' = [ok |-> TRUE, errors |-> {}, deleted |-> 0]
            /\ UNCHANGED conditions
       ELSE \E r \in {SaveEntries(
                        [conditions |-> conditions \ ConditionalOn(conditions, q),
                         resp |-> [ok |-> TRUE, errors |-> {}]], entries, q)} :
              /\ conditions' \in
                    {r.conditions, IF r.resp.ok THEN r.conditions ELSE conditions}
              /\ resp' = [ok |-> r.resp.ok, errors |-> r.resp.errors,
                          deleted |-> Cardinality(ConditionalOn(conditions, q))]
    /\ UNCHANGED <<questions, emailVars, inflight>>

ConditionalOnInputs ==
    {<<FALSE, {}>>, <<TRUE, {}>>} \cup
    {<<TRUE, {<<t, v>>}>> : t \in 1..MaxQuestions, v \in AnswerValues}

SurveyInit ==
    /\ costCenters = <<>>
    /\ drafts = <<>>
    /\ logs = <<>>
    /\ views = <<>>
    /\ mail = <<>>
    /\ questions = <<>>
    /\ conditions = {}
    /\ req = [op |-> "none"]
    /\ resp = [success |-> TRUE]
    /\ inflight = <<>>

\* Survey ids are handed out in sequence: a question joins a survey that
\* has questions, or the next new survey
OpenSurveys ==
    {s \in Surveys :
        s <= Cardinality({questions[i].survey : i \in DOMAIN questions}) + 1}

SurveyNext ==
    \/ \E s \in OpenSurveys, ty \in QuestionTypes, o \in Orders :
          CreateQuestion(s, ty, o)
    \/ \E q \in 1..MaxQuestions, ty \in QuestionTypes, o \in Orders :
          UpdateQuestion(q, ty, o)
    \/ \E t \in 1..MaxQuestions, d \in 1..MaxQuestions, v \in AnswerValues :
          SaveCondition(t, v, d)
    \/ \E q \in 1..MaxQuestions, in \in ConditionalOnInputs :
          SerializerUpdate(q, in[1], in[2])

SurveySpec == SurveyInit /\ [][SurveyNext]_vars

---------------------------------------------------------------------------
(* Inbox and outbox: InboxDetailView, MarkEmailReadView, ToggleStarView,  *)
(* ToggleArchiveView, OutboxDetailView                                    *)

\* The users for whom request.user.is_superuser or request.user.role in
\* ['admin', 'super_admin'] holds
Admins == {"bob"}

\* The values of timezone.now()
Times == {"t1", "t2"}

\* (a lookup by primary key alone)
LookupView_AnyRecipient(user, pk) ==
    IF pk \in DOMAIN views THEN pk ELSE 0

\* get_object_or_404(EmailRecipientView, pk=pk, recipient_user=request.user);
\* 0 stands for Http404
LookupView(user, pk) ==
    IF pk \in DOMAIN views /\ views[pk].recipient_user = user THEN pk ELSE 0

\* (the flag is set, the time of reading is forgotten)
mark_as_read_FlagOnly(row, now) ==
    IF ~row.is_read THEN [row EXCEPT !.is_read = TRUE] ELSE row

\* EmailRecipientView.mark_as_read
mark_as_read(row, now) ==
    IF ~row.is_read
    THEN [row EXCEPT !.is_read = TRUE, !.read_at = now]
    ELSE row

\* EmailRecipientView.toggle_starred / toggle_archived
toggle_starred(row) == [row EXCEPT !.is_starred = ~row.is_starred]
toggle_archived(row) == [row EXCEPT !.is_archived = ~row.is_archived]

\* GET /inbox/{pk}/ : the row is marked as read, then serialized
InboxDetail(user, pk, now) ==
    /\ req' = [op |-> "inbox_detail", user |-> user, pk |-> pk]
    /\ IF LookupView(user, pk) = 0
       THEN resp' = NotFound /\ UNCHANGED views
       ELSE /\ views' = [views EXCEPT ![pk] = mark_as_read(@, now)]
            /\ resp' = [status |-> 200, data |-> mark_as_read(views[pk], now)]
    /\ UNCHANGED <<costCenters, drafts, logs, mail, surveyVars, inflight>>

\* POST /inbox/{pk}/mark-read/
MarkEmailRead(user, pk, now) ==
    /\ req' = [op |-> "mark_read", user |-> user, pk |-> pk]
    /\ IF LookupView(user, pk) = 0
       THEN resp' = NotFound /\ UNCHANGED views
       ELSE /\ views' = [views EXCEPT ![pk] = mark_as_read(@, now)]
            /\ resp' = [status |-> 200, success |-> TRUE]
    /\ UNCHANGED <<costCenters, drafts, logs, mail, surveyVars, inflight>>

\* POST /inbox/{pk}/star/
ToggleStar(user, pk) ==
    /\ req' = [op |-> "star", user |-> user, pk |-> pk]
    /\ IF LookupView(user, pk) = 0
       THEN resp' = NotFound /\ UNCHANGED views
       ELSE /\ views' = [views EXCEPT ![pk] = toggle_starred(@)]
            /\ resp' = [status |-> 200, success |-> TRUE,
                        is_starred |-> toggle_starred(views[pk]).is_starred]
    /\ UNCHANGED <<costCenters, drafts, logs, mail, surveyVars, inflight>>

\* POST /inbox/{pk}/archive/
ToggleArchive(user, pk) ==
    /\ req' = [op |-> "archive", user |-> user, pk |-> pk]
    /\ IF LookupView(user, pk) = 0
       THEN resp' = NotFound /\ UNCHANGED views
       ELSE /\ views' = [views EXCEPT ![pk] = toggle_archived(@)]
            /\ resp' = [status |-> 200, success |-> TRUE,
                        is_archived |-> toggle_archived(views[pk]).is_archived]
    /\ UNCHANGED <<costCenters, drafts, logs, mail, surveyVars, inflight>>

\* get_object_or_404(EmailLog, pk=pk, user=request.user); 0 for Http404
LookupLog(user, pk) ==
    IF pk \in DOMAIN logs /\ logs[pk].user = user THEN pk ELSE 0

\* GET /outbox/{pk}/ : the view looks the log up itself and never calls
\* check_object_permissions, so CanViewEmailLog.has_object_permission
\* does not run
OutboxDetail(user, pk) ==
    /\ req' = [op |-> "outbox_detail", user |-> user, pk |-> pk]
    /\ resp' = IF LookupLog(user, pk) = 0 THEN NotFound
               ELSE [status |-> 200, data |-> logs[pk]]
    /\ UNCHANGED <<emailVars, surveyVars, inflight>>

\* The mailbox specification: one active cost center with alice in TO and
\* in CC, bob in CC; users send announcements and work on their mailboxes
InboxInit ==
    /\ costCenters =
          << [is_active |-> TRUE, recipient |-> {"a@x"},
              cc |-> {"a@x", "b@x", "ext@x"}] >>
    /\ drafts = <<>>
    /\ logs = <<>>
    /\ views = <<>>
    /\ mail = <<>>
    /\ questions = <<>>
    /\ conditions = {}
    /\ req = [op |-> "none"]
    /\ resp = [success |-> TRUE]
    /\ inflight = <<>>

\* The primary keys a request can name: the rows, and one that is no row
ViewIds == 1..(Len(views) + 1)
LogIds == 1..(Len(logs) + 1)

InboxNext ==
    \/ \E u \in Users, ok \in SUBSET ActiveCostCenters :
          SendEmail(u, "ANNOUNCEMENT", {}, ok, NoDbFail)
    \/ \E u \in Users, pk \in ViewIds, now \in Times : InboxDetail(u, pk, now)
    \/ \E u \in Users, pk \in ViewIds, now \in Times : MarkEmailRead(u, pk, now)
    \/ \E u \in Users, pk \in ViewIds : ToggleStar(u, pk)
    \/ \E u \in Users, pk \in ViewIds : ToggleArchive(u, pk)
    \/ \E u \in Users, pk \in LogIds : OutboxDetail(u, pk)

InboxSpec == InboxInit /\ [][InboxNext]_vars

---------------------------------------------------------------------------
(* Star and archive requests served concurrently: a request first fetches
   the row (a SELECT), then toggles its own copy and saves the one column
   (an UPDATE); requests of other workers can run between the two *)

MaxRequests == 2   \* toggle requests that are served

ToggleOps == {"star", "archive"}

\* self.save(update_fields=[...]): UPDATE of the one column of row pk with
\* the value of the instance
save_update_fields(op, pk, row) ==
    [views EXCEPT ![pk] =
        IF op = "star"
        THEN [@ EXCEPT !.is_starred = row.is_starred]
        ELSE [@ EXCEPT !.is_archived = row.is_archived]]

\* The first statement of ToggleStarView.post / ToggleArchiveView.post:
\* get_object_or_404 loads the row into the request's own instance, or
\* the request ends with 404
ToggleFetch(user, op, pk) ==
    /\ Len(inflight) < MaxRequests
    /\ IF LookupView(user, pk) = 0
       THEN /\ req' = [op |-> op, user |-> user, pk |-> pk]
            /\ resp' = NotFound
            /\ UNCHANGED inflight
       ELSE /\ inflight' = Append(inflight,
                              [op |-> op, user |-> user, pk |-> pk,
                               row |-> views[pk], pc |-> "fetched"])
            /\ UNCHANGED <<req, resp>>
    /\ UNCHANGED <<emailVars, surveyVars>>

\* The rest of the handler for request k: toggle_starred / toggle_archived
\* on the instance fetched earlier, and the response
ToggleSave(k) ==
    /\ k \in DOMAIN inflight
    /\ inflight[k].pc = "fetched"
    /\ LET r == inflight[k]
           row == IF r.op = "star" THEN toggle_starred(r.row)
                  ELSE toggle_archived(r.row)
       IN /\ views' = save_update_fields(r.op, r.pk, row)
          /\ inflight' = [inflight EXCEPT ![k] = [@ EXCEPT !.row = row,
                                                          !.pc = "done"]]
          /\ req' = [op |-> r.op, user |-> r.user, pk |-> r.pk]
          /\ resp' = IF r.op = "star"
                     THEN [status |-> 200, success |-> TRUE,
                           is_starred |-> row.is_starred]
                     ELSE [status |-> 200, success |-> TRUE,
                           is_archived |-> row.is_archived]
    /\ UNCHANGED <<costCenters, drafts, logs, mail, surveyVars>>

\* The concurrent-toggle specification: the cost center of the mailbox
\* specification, announcements, and toggle requests in two steps
ToggleNext ==
    \/ \E u \in Users, ok \in SUBSET ActiveCostCenters :
          SendEmail(u, "ANNOUNCEMENT", {}, ok, NoDbFail)
    \/ \E u \in Users, op \in ToggleOps, pk \in ViewIds : ToggleFetch(u, op, pk)
    \/ \E k \in 1..MaxRequests : ToggleSave(k)

ToggleSpec == InboxInit /\ [][ToggleNext]_vars

---------------------------------------------------------------------------
(* Vocabulary of the statements about one send *)

\* the step is a call of send_email
SendStep == req'.op = "send_email"

\* the cost centers the call is meant to address, from the request and
\* the cost-center table (which a send leaves unchanged)
Addressed ==
    IF req'.send_type = "ANNOUNCEMENT"
    THEN {c \in DOMAIN costCenters : costCenters[c].is_active}
    ELSE IF req'.send_type = "SPECIFIC"
    THEN {c \in req'.cost_center_ids :
            c \in DOMAIN costCenters /\ costCenters[c].is_active}
    ELSE {}

\* the rows the step added to email_log, and the messages it delivered
NewLogs == {i \in DOMAIN logs' : i > Len(logs)}
NewMail == {i \in DOMAIN mail' : i > Len(mail)}
NewSent == {i \in NewLogs : logs'[i].email_type = "SENT"}
NewReceived(c) ==
    {i \in NewLogs : logs'[i].email_type = "RECEIVED" /\ logs'[i].cost_center = c}

\* the call returned its summary and no step of it raised an exception
NoException(r) ==
    /\ "details" \in DOMAIN r
    /\ \A k \in DOMAIN r.details : r.details[k].error # "exception"

RowsFor(i, u) ==
    {j \in DOMAIN views :
        views[j].email_log = i /\ views[j].recipient_user = u}

\* the logs the last call reported in its summary
JustCreated ==
    IF req.op = "send_email" /\ "details" \in DOMAIN resp
    THEN {resp.details[k].log_id : k \in DOMAIN resp.details}
    ELSE {}

\* C2: for every RECEIVED log whose delivery succeeded, each user whose
\* account email is in the log's TO or CC list has exactly one
\* EmailRecipientView row for the log, with is_to true exactly when the
\* email is in the TO list; the rows of a log just created are unread,
\* unstarred and unarchived; no (email_log, recipient_user) pair has two rows.
C2_OneRowPerRecipient ==
    /\ \A i \in DOMAIN logs :
          (logs[i].email_type = "RECEIVED" /\ logs[i].email_status = "SUCCESS") =>
            \A u \in Users :
              UserEmail(u) \in logs[i].recipient_emails \cup logs[i].cc_emails =>
                /\ Cardinality(RowsFor(i, u)) = 1
                /\ \A j \in RowsFor(i, u) :
                      /\ views[j].is_to = (UserEmail(u) \in logs[i].recipient_emails)
                      /\ i \in JustCreated =>
                            /\ ~views[j].is_read
                            /\ views[j].read_at = "null"
                            /\ ~views[j].is_starred
                            /\ ~views[j].is_archived
    /\ \A j, k \in DOMAIN views :
          (/\ views[j].email_log = views[k].email_log
           /\ views[j].recipient_user = views[k].recipient_user) => j = k

\* C2 witness: a delivered RECEIVED log with a TO row for alice, who is in
\* TO and CC, and a CC row for bob, who is in CC only.
C2_Witness ==
    \E i \in DOMAIN logs :
        /\ logs[i].email_type = "RECEIVED" /\ logs[i].email_status = "SUCCESS"
        /\ {"a@x", "b@x"} \subseteq logs[i].cc_emails
        /\ logs[i].recipient_emails = {"a@x"}
        /\ \E j \in RowsFor(i, "alice") : views[j].is_to
        /\ \E j \in RowsFor(i, "bob") : ~views[j].is_to

\* C3: a send_email call goes through all and only the addressed cost
\* centers (ANNOUNCEMENT: the active ones; SPECIFIC: the requested ids that
\* are active); every RECEIVED log and every delivered message of the call
\* is for an addressed cost center.
C3_OnlyAddressedActive ==
    [][ SendStep =>
          /\ "details" \in DOMAIN resp' =>
                {resp'.details[k].cost_center : k \in DOMAIN resp'.details}
                    = Addressed
          /\ \A i \in NewLogs :
                logs'[i].email_type = "RECEIVED" => logs'[i].cost_center \in Addressed
          /\ \A i \in NewMail : mail'[i].cost_center \in Addressed ]_vars

\* C3 witness: a SPECIFIC send that named an inactive and an active cost
\* center delivered one message.
C3_Witness ==
    /\ req.op = "send_email" /\ req.send_type = "SPECIFIC"
    /\ \E c, d \in req.cost_center_ids \cap DOMAIN costCenters :
          /\ costCenters[c].is_active /\ ~costCenters[d].is_active
          /\ costCenters[d].recipient # {}
    /\ NoException(resp)
    /\ Len(mail) = 1 /\ Len(logs) = 2

\* C4: send_email returns success=false with the error message of the
\* case, and adds no log, no recipient row and delivers nothing, when
\* SPECIFIC comes without cost center ids, when the send type is neither
\* ANNOUNCEMENT nor SPECIFIC, and when no active cost center is addressed.
C4_RejectedSendChangesNothing ==
    [][ SendStep =>
          LET case ==
                IF req'.send_type = "SPECIFIC" /\ req'.cost_center_ids = {}
                THEN "Cost center IDs required for SPECIFIC send type"
                ELSE IF req'.send_type \notin {"ANNOUNCEMENT", "SPECIFIC"}
                THEN "Invalid send type"
                ELSE IF Addressed = {}
                THEN "No active cost centers found"
                ELSE ""
          IN case # "" =>
               /\ resp' = [success |-> FALSE, error |-> case]
               /\ logs' = logs /\ views' = views /\ mail' = mail
               /\ drafts' = drafts ]_vars

\* C4 witness: a SPECIFIC send to an existing but inactive cost center was
\* refused.
C4_Witness ==
    /\ req.op = "send_email" /\ req.send_type = "SPECIFIC"
    /\ \E c \in req.cost_center_ids : c \in DOMAIN costCenters
    /\ resp = [success |-> FALSE, error |-> "No active cost centers found"]

\* C15: every mail a send_email call hands to the mail backend for a cost
\* center is recorded: after the call a RECEIVED log of that call with
\* email_status SUCCESS exists for that cost center, whatever a later step
\* of the call does.
C15_HandedMailIsLogged ==
    [][ SendStep =>
          \A m \in NewMail :
             \E i \in NewReceived(mail'[m].cost_center) :
                logs'[i].email_status = "SUCCESS" ]_vars

---------------------------------------------------------------------------
(* Vocabulary of the statements about drafts *)

DraftEndpointOps == {"draft_retrieve", "draft_update", "draft_destroy"}
DraftServiceOps == {"save_draft", "send_from_draft"}

\* The step is a request that names an existing draft of another user
ForeignDraftStep ==
    /\ req'.op \in DraftEndpointOps \cup DraftServiceOps
    /\ req'.draft_id \in DOMAIN drafts
    /\ drafts[req'.draft_id].user # req'.user

\* C10: only the owner of a draft can edit, delete or send it.  A draft
\* endpoint called for a draft of another user answers without success,
\* exposing and changing nothing; the draft list holds only the caller's
\* drafts; save_draft with the id of another user's draft and
\* send_from_draft for another user's draft return success = false with
\* error 'Draft not found', and no draft is modified, no EmailLog row is
\* created and no email is delivered.
C10_OnlyOwnerTouchesDraft ==
    [][ /\ ForeignDraftStep =>
             /\ drafts' = drafts
             /\ logs' = logs
             /\ views' = views
             /\ mail' = mail
             /\ req'.op \in DraftEndpointOps => resp' \in {[status |-> 404], [status |-> 403]}
             /\ req'.op \in DraftServiceOps =>
                    resp' = [success |-> FALSE, error |-> "Draft not found"]
        /\ req'.op = "draft_list" =>
             \A d \in resp'.results : drafts[d].user = req'.user
      ]_vars

\* Reached: bob has just called send_from_draft for alice's live
\* SPECIFIC draft, and was told 'Draft not found'
C10_Witness ==
    /\ req.op = "send_from_draft"
    /\ req.user = "bob"
    /\ req.draft_id \in DOMAIN drafts
    /\ drafts[req.draft_id].user = "alice"
    /\ ~drafts[req.draft_id].is_deleted
    /\ drafts[req.draft_id].send_type = "SPECIFIC"
    /\ get_cost_center_list(drafts[req.draft_id].cost_center_ids) = <<2, 1>>
    /\ resp = [success |-> FALSE, error |-> "Draft not found"]

\* The step is a request of the owner that names a soft-deleted draft
DeletedDraftStep ==
    /\ req'.op \in DraftEndpointOps \cup DraftServiceOps
    /\ req'.draft_id \in DOMAIN drafts
    /\ drafts[req'.draft_id].user = req'.user
    /\ drafts[req'.draft_id].is_deleted

\* C11: deleting a draft is a soft delete.  The delete keeps the row and
\* sets is_deleted; no step removes a row, changes a deleted row or sets
\* is_deleted back to false; a deleted draft is in no list, its retrieve,
\* update and delete answer not-found, and save_draft and send_from_draft
\* on it return 'Draft not found' and write and deliver nothing.
C11_SoftDeleteIsFinal ==
    [][ /\ Len(drafts') >= Len(drafts)
        /\ \A d \in DOMAIN drafts : drafts[d].is_deleted => drafts'[d] = drafts[d]
        /\ (req'.op = "draft_destroy" /\ resp' = [status |-> 204]) =>
              drafts' = [drafts EXCEPT ![req'.draft_id].is_deleted = TRUE]
        /\ req'.op = "draft_list" =>
              \A d \in resp'.results : ~drafts[d].is_deleted
        /\ DeletedDraftStep =>
              /\ logs' = logs /\ views' = views /\ mail' = mail
              /\ req'.op \in DraftEndpointOps => resp' = [status |-> 404]
              /\ req'.op \in DraftServiceOps =>
                    resp' = [success |-> FALSE, error |-> "Draft not found"]
      ]_vars

\* Reached: alice deleted her ANNOUNCEMENT draft, the row is still there,
\* and her send_from_draft on it was answered 'Draft not found'
C11_Witness ==
    /\ req.op = "send_from_draft"
    /\ req.user = "alice"
    /\ req.draft_id \in DOMAIN drafts
    /\ drafts[req.draft_id].user = "alice"
    /\ drafts[req.draft_id].is_deleted
    /\ drafts[req.draft_id].send_type = "ANNOUNCEMENT"
    /\ resp = [success |-> FALSE, error |-> "Draft not found"]
    /\ logs = <<>> /\ mail = <<>>

---------------------------------------------------------------------------
(* Vocabulary of the statements about the mailboxes *)

InboxOps == {"inbox_detail", "mark_read", "star", "archive"}

\* The step is an inbox request that names a row of another recipient
ForeignViewStep ==
    /\ req'.op \in InboxOps
    /\ req'.pk \in DOMAIN views
    /\ views[req'.pk].recipient_user # req'.user

\* C12: only the recipient can view or change an inbox entry: an inbox
\* detail, mark-read, star or archive request on a row whose recipient_user
\* is not the requesting user returns not-found and leaves the row's
\* is_read, read_at, is_starred and is_archived as they were.
C12_OnlyRecipientTouchesEntry ==
    [][ ForeignViewStep =>
          /\ resp' = [status |-> 404]
          /\ views'[req'.pk].is_read = views[req'.pk].is_read
          /\ views'[req'.pk].read_at = views[req'.pk].read_at
          /\ views'[req'.pk].is_starred = views[req'.pk].is_starred
          /\ views'[req'.pk].is_archived = views[req'.pk].is_archived
          /\ views' = views
      ]_vars

\* Reached: bob asked to star alice's entry and got not-found
C12_Witness ==
    /\ req.op = "star"
    /\ req.user = "bob"
    /\ req.pk \in DOMAIN views
    /\ views[req.pk].recipient_user = "alice"
    /\ ~views[req.pk].is_starred
    /\ resp = [status |-> 404]

\* C13: retrieving an inbox entry's detail as its recipient marks it as
\* read: after the GET the row has is_read true and a read_at that is not
\* null, and the response of the same GET shows is_read true.
C13_DetailMarksRead ==
    [][ (/\ req'.op = "inbox_detail"
         /\ req'.pk \in DOMAIN views
         /\ views[req'.pk].recipient_user = req'.user) =>
          /\ views'[req'.pk].is_read
          /\ views'[req'.pk].read_at # "null"
          /\ resp'.status = 200
          /\ resp'.data.is_read
      ]_vars

\* Reached: bob, a CC recipient, retrieved his entry; it is read since t2
C13_Witness ==
    /\ req.op = "inbox_detail"
    /\ req.user = "bob"
    /\ req.pk \in DOMAIN views
    /\ views[req.pk].recipient_user = "bob"
    /\ resp.status = 200
    /\ resp.data.is_read
    /\ views[req.pk].is_read
    /\ views[req.pk].read_at = "t2"

\* C14: through the outbox detail endpoint a user who is no admin gets a
\* log only when they are its user, and an admin (superuser, role admin or
\* super_admin) gets the log of any user.
C14_OwnLogsAdminsAll ==
    [][ (req'.op = "outbox_detail" /\ req'.pk \in DOMAIN logs) =>
          (resp'.status = 200 <=>
              (req'.user \in Admins \/ logs[req'.pk].user = req'.user))
      ]_vars

\* the toggle requests of one kind on row pk that were answered, and
\* whether one of that kind is between its fetch and its save
DoneToggles(op, pk) ==
    {k \in DOMAIN inflight :
        inflight[k].op = op /\ inflight[k].pk = pk /\ inflight[k].pc = "done"}
TogglePending(op, pk) ==
    \E k \in DOMAIN inflight :
        inflight[k].op = op /\ inflight[k].pk = pk /\ inflight[k].pc = "fetched"

\* C16: no toggle is lost under concurrency: once the star (archive)
\* requests on an inbox entry are all answered, each has taken effect
\* exactly once; a row is created unstarred and unarchived, so its flag is
\* set exactly when an odd number of requests was answered, and two
\* requests leave it at its original value.
C16_NoToggleLost ==
    \A pk \in DOMAIN views :
        /\ ~TogglePending("star", pk) =>
              (views[pk].is_starred
                  <=> Cardinality(DoneToggles("star", pk)) % 2 = 1)
        /\ ~TogglePending("archive", pk) =>
              (views[pk].is_archived
                  <=> Cardinality(DoneToggles("archive", pk)) % 2 = 1)

---------------------------------------------------------------------------
(* Vocabulary of the statements about conditions *)

\* The step tried to save a condition of trigger t and dependent d
Attempted(t, d) ==
    \/ /\ req'.op = "save_condition"
       /\ req'.trigger = t
       /\ req'.dependent = d
    \/ /\ req'.op = "serializer_update"
       /\ req'.question = d
       /\ req'.given
       /\ \E e \in req'.entries : e[1] = t

\* The step raised a ValidationError with the message and stored nothing
Refused(message) ==
    /\ ~resp'.ok
    /\ message \in resp'.errors
    /\ conditions' \ conditions = {}

Before(cs, qs) ==
    \A c \in cs : qs[c.trigger].order < qs[c.dependent].order

C6_OtherTriggerTypeRefused ==
    [][ \A t \in DOMAIN questions, d \in DOMAIN questions :
          /\ Attempted(t, d)
          /\ questions[t].question_type \notin {"yes_no", "single_choice"}
          => Refused(TypeMessage)
      ]_vars

\* Reached: a condition whose only fault is a text trigger was just refused
C6_Witness ==
    /\ req.op = "save_condition"
    /\ questions[req.trigger].question_type = "text"
    /\ questions[req.trigger].survey = questions[req.dependent].survey
    /\ questions[req.trigger].order < questions[req.dependent].order
    /\ resp = [ok |-> FALSE, errors |-> {TypeMessage}]
    /\ conditions = {}

\* C7: a condition links two questions of the same survey: saving one whose
\* trigger and dependent questions belong to different surveys is rejected
\* with a ValidationError saying they 'must be in the same survey', and no
\* condition is stored.
C7_OtherSurveyRefused ==
    [][ \A t \in DOMAIN questions, d \in DOMAIN questions :
          Attempted(t, d) /\ questions[t].survey # questions[d].survey
          => Refused(SurveyMessage)
      ]_vars

\* Reached: a condition whose only fault is that its questions are in two
\* surveys was just refused
C7_Witness ==
    /\ req.op = "save_condition"
    /\ questions[req.trigger].survey # questions[req.dependent].survey
    /\ questions[req.trigger].question_type = "yes_no"
    /\ questions[req.trigger].order < questions[req.dependent].order
    /\ resp = [ok |-> FALSE, errors |-> {SurveyMessage}]
    /\ conditions = {}

\* Question a depends on question b through at most n conditions
RECURSIVE DependsOn(_, _, _)
DependsOn(a, b, n) ==
    /\ n > 0
    /\ \E c \in conditions :
          /\ c.dependent = a
          /\ c.trigger = b \/ DependsOn(c.trigger, b, n - 1)

C9_EmptyListRemovesConditions ==
    [][ (req'.op = "serializer_update" /\ req'.given /\ req'.entries = {})
          => /\ resp'.ok
             /\ {c \in conditions' : c.dependent = req'.question} = {}
      ]_vars

\* Reached: the update with the empty list just deleted a condition
C9_Witness ==
    /\ req.op = "serializer_update"
    /\ req.given
    /\ req.entries = {}
    /\ resp.ok
    /\ resp.deleted >= 1
    /\ {c \in conditions : c.dependent = req.question} = {}

====
